---------------------------- MODULE Spec2Model ----------------------------
(***************************************************************************)
(* Model of the per-predicate collection cache (VectorStoreManager), of    *)
(* the context selector (RAGService.current_predicate_k_number) and of the *)
(* check_predicate_equivalence handler of medimate.                        *)
(*                                                                         *)
(* Strings are sequences of one-character strings, so that replace(),      *)
(* lower(), upper() and startswith() are computed as Python computes them. *)
(* The index engine (Qdrant) is the function colls, whose domain is the    *)
(* set of existing collections; a collection is the sequence of the        *)
(* documents inserted into it, a document being its number of chunks.      *)
(***************************************************************************)
EXTENDS Integers, Sequences, FiniteSets, TLC

VARIABLES colls, current, co, th, ret, ex, pv, rq

vars == <<colls, current, co, th, ret, ex, pv, rq>>

(***************************************************************************)
(* Bounds of the model.                                                    *)
(***************************************************************************)
\* a document splits into 0..MaxChunks chunks
MaxChunks == 1

\* keep_count ranges over 0..MaxKeep
MaxKeep == 1

\* chunks of the guidelines document loaded at startup
GuidelinesPoints == 1

\* the two concurrent callers (requests / worker threads)
Procs == {"A", "B"}

(***************************************************************************)
(* Python string operations.                                               *)
(***************************************************************************)
LowerLetters ==
  <<"a","b","c","d","e","f","g","h","i","j","k","l","m",
    "n","o","p","q","r","s","t","u","v","w","x","y","z">>

UpperLetters ==
  <<"A","B","C","D","E","F","G","H","I","J","K","L","M",
    "N","O","P","Q","R","S","T","U","V","W","X","Y","Z">>

LowerChar(ch) ==
  IF \E i \in 1..26 : UpperLetters[i] = ch
    THEN LowerLetters[CHOOSE i \in 1..26 : UpperLetters[i] = ch]
    ELSE ch

UpperChar(ch) ==
  IF \E i \in 1..26 : LowerLetters[i] = ch
    THEN UpperLetters[CHOOSE i \in 1..26 : LowerLetters[i] = ch]
    ELSE ch

\* a lower() that changes no character
LowerNothing(s) == s

\* str.lower()
Lower(s) == [i \in 1..Len(s) |-> LowerChar(s[i])]

\* str.upper()
Upper(s) == [i \in 1..Len(s) |-> UpperChar(s[i])]

\* str.startswith(pre)
StartsWith(s, pre) == Len(s) >= Len(pre) /\ SubSeq(s, 1, Len(pre)) = pre

\* str.replace(old, new): every non-overlapping occurrence, left to right
RECURSIVE Replace(_, _, _)
Replace(s, old, new) ==
  IF Len(s) < Len(old) THEN s
  ELSE IF SubSeq(s, 1, Len(old)) = old
    THEN new \o Replace(SubSeq(s, Len(old) + 1, Len(s)), old, new)
    ELSE <<Head(s)>> \o Replace(Tail(s), old, new)

\* seq[i:] for any integer i
SliceFrom(s, i) ==
  IF i >= 0 THEN SubSeq(s, i + 1, Len(s))
  ELSE SubSeq(s, (IF Len(s) + i > 0 THEN Len(s) + i ELSE 0) + 1, Len(s))

Range(s) == {s[i] : i \in 1..Len(s)}

(***************************************************************************)
(* Collection names.                                                       *)
(***************************************************************************)
PREFIX == <<"p","r","e","d","i","c","a","t","e","_">>

GUIDELINES == <<"g","u","i","d","e","l","i","n","e","s">>

LEGACY == PREFIX \o <<"d","e","v","i","c","e">>

\* None, and the empty string: both are falsy in Python
None == <<>>

get_predicate_collection_name(k_number) ==
  PREFIX \o Lower(Replace(Replace(k_number, <<"/">>, <<"_">>), <<"\\">>, <<"_">>))

\* the K-number cleanup_old_collections derives from a collection name
k_number_of(name) == Upper(Replace(name, PREFIX, <<>>))

\* K-numbers the callers use
K1 == <<"K","1">>

\* a K-number that holds the collection prefix itself
PK1 == <<"p","r","e","d","i","c","a","t","e","_","K","1">>

\* every K-number a caller passes in
AllKeys == {K1, PK1}

\* the K-numbers of the devices whose collections fill the cache before a
\* cleanup request
RouteKeys ==
  {<<"K","2">>, <<"K","3">>, <<"K","4">>, <<"K","5">>, <<"K","6">>}

\* every collection name the callers' K-numbers give rise to
AllNames ==
  {GUIDELINES, LEGACY}
    \cup {get_predicate_collection_name(k) : k \in AllKeys \cup RouteKeys}

\* the K-numbers cleanup_old_collections derives from those names
DerivedKeys == {k_number_of(name) : name \in AllNames}

\* the two conversions, tabulated once over the finite universe of the model
NameTable ==
  [k \in AllKeys \cup RouteKeys \cup DerivedKeys |->
     get_predicate_collection_name(k)]

KNumberTable == [name \in AllNames |-> k_number_of(name)]

\* collection.name.startswith("predicate_")
PredicateNames == {name \in AllNames : StartsWith(name, PREFIX)}

(***************************************************************************)
(* The index engine, and the synchronous cache operations.                 *)
(***************************************************************************)
\* an existence check that never finds the collection
collection_never_exists(c, name) == FALSE

collection_exists(c, name) == name \in DOMAIN c

\* a create that puts one point into the new collection
create_collection_seeded(c, name) ==
  [x \in DOMAIN c \cup {name} |-> IF x = name THEN <<1>> ELSE c[x]]

create_collection(c, name) ==
  [x \in DOMAIN c \cup {name} |-> IF x = name THEN <<>> ELSE c[x]]

delete_collection(c, name) == [x \in DOMAIN c \ {name} |-> c[x]]

\* aadd_documents: the n chunks of a document become n new points
upsert(c, name, n) == IF n = 0 THEN c ELSE [c EXCEPT ![name] = Append(@, n)]

RECURSIVE Sum(_)
Sum(s) == IF s = <<>> THEN 0 ELSE Head(s) + Sum(Tail(s))

\* get_collection(name).points_count
points_count(c, name) == Sum(c[name])

predicate_collection_exists(c, k_number) ==
  collection_exists(c, NameTable[k_number])

\* the check with its comparison off by one: points_count > 1
CacheHitMoreThanOne(c, k_number) ==
  /\ predicate_collection_exists(c, k_number)
  /\ points_count(c, NameTable[k_number]) > 1

\* the check of load_predicate_to_collection and of
\* load_predicate_pdf_to_vector_store: exists and points_count > 0
CacheHit(c, k_number) ==
  /\ predicate_collection_exists(c, k_number)
  /\ points_count(c, NameTable[k_number]) > 0

\* a delete that does not look whether the collection exists
delete_predicate_collection_unchecked(c, k_number) ==
  [colls |-> delete_collection(c, NameTable[k_number]), ok |-> TRUE]

\* delete_predicate_collection: the engine afterwards, and the value returned
delete_predicate_collection(c, k_number) ==
  LET name == NameTable[k_number] IN
  IF collection_exists(c, name)
    THEN [colls |-> delete_collection(c, name), ok |-> TRUE]
    ELSE [colls |-> c, ok |-> FALSE]

\* every order in which get_collections() may enumerate the collections
RECURSIVE Perms(_)
Perms(S) ==
  IF S = {} THEN {<<>>}
  ELSE UNION {{<<x>> \o p : p \in Perms(S \ {x})} : x \in S}

Enumerations(c) == Perms(DOMAIN c)

\* list.sort(key=points_count, reverse=True): stable, descending
RECURSIVE InsertDesc(_, _, _)
InsertDesc(c, sorted, name) ==
  IF sorted = <<>> THEN <<name>>
  ELSE IF points_count(c, Head(sorted)) >= points_count(c, name)
    THEN <<Head(sorted)>> \o InsertDesc(c, Tail(sorted), name)
    ELSE <<name>> \o sorted

RECURSIVE SortDesc(_, _)
SortDesc(c, names) ==
  IF names = <<>> THEN <<>>
  ELSE InsertDesc(c, SortDesc(c, SubSeq(names, 1, Len(names) - 1)),
                  names[Len(names)])

\* the collections cleanup_old_collections considers, in enumeration order
PredicateCollections(order) ==
  SelectSeq(order, LAMBDA name : name \in PredicateNames)

\* the entries beyond position keep_count, by collection name
EvictionTail(c, order, keep_count) ==
  SliceFrom(SortDesc(c, PredicateCollections(order)), keep_count)

\* the loop over the tail: each derived K-number goes to delete_predicate_collection
RECURSIVE CleanupLoop(_, _)
CleanupLoop(c, tail) ==
  IF tail = <<>> THEN c
  ELSE CleanupLoop(delete_predicate_collection(c, KNumberTable[Head(tail)]).colls,
                   Tail(tail))

RECURSIVE DeleteAll(_, _)
DeleteAll(c, names) ==
  IF names = <<>> THEN c
  ELSE DeleteAll(delete_collection(c, Head(names)), Tail(names))

\* a cleanup without the "predicate_" filter that deletes by collection name
cleanup_all_collections(c, order, keep_count) ==
  LET tail == SliceFrom(SortDesc(c, order), keep_count) IN
  [colls   |-> DeleteAll(c, tail),
   deleted |-> [i \in 1..Len(tail) |-> KNumberTable[tail[i]]]]

\* list_predicate_collections: the K-number derived from the name of every
\* collection whose name starts with "predicate_", in enumeration order
list_predicate_collections(order) ==
  LET names == PredicateCollections(order) IN
  [i \in 1..Len(names) |-> KNumberTable[names[i]]]

\* cleanup_old_collections: the engine afterwards, and the list returned
cleanup_old_collections(c, order, keep_count) ==
  LET tail == EvictionTail(c, order, keep_count) IN
  [colls   |-> CleanupLoop(c, tail),
   deleted |-> [i \in 1..Len(tail) |-> KNumberTable[tail[i]]]]


(***************************************************************************)
(* The synchronous stretches of the two loaders, up to their first         *)
(* suspension.                                                             *)
(***************************************************************************)
\* pdf_path is None: PyPDFLoader raises
NoPath == -1

Pdfs == {NoPath} \cup (0..MaxChunks)

\* load_predicate_to_collection up to get_predicate_vector_store's check:
\* "exists" (cache hit), "raised" (the loader failed), or the engine call
\* that comes next, "create" or "insert"; rd: the document was read
LoadStretch(c, k_number, pdf) ==
  IF CacheHit(c, k_number) THEN [status |-> "exists", rd |-> FALSE]
  ELSE IF pdf = NoPath THEN [status |-> "raised", rd |-> FALSE]
  ELSE IF predicate_collection_exists(c, k_number)
    THEN [status |-> "insert", rd |-> TRUE]
    ELSE [status |-> "create", rd |-> TRUE]

\* where load_predicate_pdf_to_vector_store finds the PDF
Sources == {"r2", "local", "missing"}

\* load_predicate_pdf_to_vector_store up to the same point: "true" (cache
\* hit), "false" (no PDF, or the loader raised), "create" or "insert"
SvcStretch(c, k_number, src, n) ==
  IF CacheHit(c, k_number) THEN [status |-> "true", rd |-> FALSE]
  ELSE IF src = "missing" THEN [status |-> "false", rd |-> FALSE]
  ELSE LET r == LoadStretch(c, k_number, IF src = "r2" THEN NoPath ELSE n) IN
       IF r.status = "exists" THEN [status |-> "true", rd |-> FALSE]
       ELSE IF r.status = "raised" THEN [status |-> "false", rd |-> FALSE]
       ELSE r

\* the finally block of check_predicate_equivalence, on a plain return only
ClearOnReturnOnly(outcome, cur) == IF outcome = "returned" THEN None ELSE cur

\* the finally block of check_predicate_equivalence: clear_current_predicate
ClearOnExit(outcome, cur) == None

(***************************************************************************)
(* The extraction coordinator: GenericExtractionTool.extract_field and     *)
(* ParallelExtractor.extract_all_fields. A chunk's page_content is a       *)
(* string; the retriever and the generation call are collaborators whose   *)
(* outcomes are inputs.                                                    *)
(***************************************************************************)
UNKNOWN == <<"U","n","k","n","o","w","n">>

\* the characters str.strip() removes
Whitespace == {" ", "\n", "\t"}

RECURSIVE LStrip(_)
LStrip(s) ==
  IF s # <<>> /\ Head(s) \in Whitespace THEN LStrip(Tail(s)) ELSE s

RECURSIVE RStrip(_)
RStrip(s) ==
  IF s # <<>> /\ s[Len(s)] \in Whitespace
    THEN RStrip(SubSeq(s, 1, Len(s) - 1))
    ELSE s

\* a strip() that removes nothing
StripNothing(s) == s

\* str.strip()
Strip(s) == RStrip(LStrip(s))

\* the configured fields, in the order of the dict, with their probe queries
FieldOrder == <<"device_name", "manufacturer">>

EXTRACTION_CONFIG ==
  [device_name  |-> [queries |-> <<"device name", "trade name">>],
   manufacturer |-> [queries |-> <<"manufacturer", "company">>]]

FieldNames == DOMAIN EXTRACTION_CONFIG

\* page contents the document's chunks have
BlankText == <<" ">>

\* what one probe can return: the ranked page contents of the chunks found
Rankings ==
  { <<>>,
    <<BlankText>>,
    <<<<"a">>, <<"a">>>>,
    <<<<"a">>, <<"b">>, <<"c">>>>,
    <<<<"c">>, <<"a">>, <<"d">>>>,
    <<<<"d">>, <<"e">>, <<"f">>>> }

\* the retriever raises, or returns a ranking
ProbeOutcomes ==
  {[raised |-> TRUE, docs |-> <<>>]}
    \cup {[raised |-> FALSE, docs |-> d] : d \in Rankings}

\* a probe that passes on an error text as a chunk when the retriever raises
search_chunks_error_chunk(outcome, query) ==
  IF outcome.raised
    THEN << [page_content |-> <<"e">>, query |-> query, rank |-> 1] >>
  ELSE [i \in 1..Len(outcome.docs) |->
          [page_content |-> outcome.docs[i], query |-> query, rank |-> i]]

\* _search_chunks: the chunks of one probe; [] when the retriever raises
search_chunks(outcome, query) ==
  IF outcome.raised THEN <<>>
  ELSE [i \in 1..Len(outcome.docs) |->
          [page_content |-> outcome.docs[i], query |-> query, rank |-> i]]

\* a dict assignment that moves an existing key to the end
dict_put_last_seen(d, chunk) ==
  Append(SelectSeq(d, LAMBDA x : x.page_content # chunk.page_content), chunk)

\* d[chunk.page_content] = chunk on an insertion-ordered dict, held as the
\* sequence of its values: an existing key keeps its position
dict_put(d, chunk) ==
  IF \E i \in 1..Len(d) : d[i].page_content = chunk.page_content
    THEN [i \in 1..Len(d) |->
            IF d[i].page_content = chunk.page_content THEN chunk ELSE d[i]]
    ELSE Append(d, chunk)

\* list({chunk.page_content: chunk for chunk in all_chunks}.values())
RECURSIVE unique_chunks(_)
unique_chunks(all_chunks) ==
  IF all_chunks = <<>> THEN <<>>
  ELSE dict_put(unique_chunks(SubSeq(all_chunks, 1, Len(all_chunks) - 1)),
                all_chunks[Len(all_chunks)])

\* the limit of the slice unique_chunks[:5]
TopChunks == 5

\* a slice that keeps every element
TakeAll(s, n) == s

\* s[:n]
Take(s, n) == SubSeq(s, 1, IF Len(s) < n THEN Len(s) ELSE n)

\* sep.join(parts)
RECURSIVE Join(_, _)
Join(sep, parts) ==
  IF parts = <<>> THEN <<>>
  ELSE IF Len(parts) = 1 THEN parts[1]
  ELSE parts[1] \o sep \o Join(sep, Tail(parts))

\* "\n\n".join([chunk.page_content for chunk in unique_chunks[:5]])
combined_text(unique) ==
  LET top == Take(unique, TopChunks) IN
  Join(<<"\n", "\n">>, [i \in 1..Len(top) |-> top[i].page_content])

\* the generation call raises, or returns a response with this content
GenOutcomes ==
  {[raised |-> TRUE, content |-> <<>>],
   [raised |-> FALSE, content |-> <<>>],
   [raised |-> FALSE, content |-> <<" ", "X", "\n">>]}

\* extract_field after the generation call: the stripped content, "Unknown"
\* when it is empty or when the call raised
generated_value(outcome) ==
  IF outcome.raised THEN UNKNOWN
  ELSE IF Strip(outcome.content) = <<>> THEN UNKNOWN
  ELSE Strip(outcome.content)

\* a zip that loses its last pair
ZipShort(names, values) ==
  [i \in 1..(IF Len(names) < Len(values) THEN Len(names) ELSE Len(values)) - 1
     |-> <<names[i], values[i]>>]

\* zip(extraction_config.keys(), field_values)
Zip(names, values) ==
  [i \in 1..(IF Len(names) < Len(values) THEN Len(names) ELSE Len(values))
     |-> <<names[i], values[i]>>]

\* a join that gives up every field when one field has no value
build_results_all_or_nothing(pairs) ==
  [name \in {pairs[i][1] : i \in 1..Len(pairs)} |->
     IF \E i \in 1..Len(pairs) :
          pairs[i][2].raised \/ pairs[i][2].value = UNKNOWN
       THEN UNKNOWN
       ELSE LET i == CHOOSE j \in 1..Len(pairs) : pairs[j][1] = name
            IN pairs[i][2].value]

\* the loop that builds results: a task that ended with an exception gives
\* "Unknown" (a later pair with the same name would overwrite an earlier one)
build_results(pairs) ==
  [name \in {pairs[i][1] : i \in 1..Len(pairs)} |->
     LET i == CHOOSE j \in 1..Len(pairs) :
                /\ pairs[j][1] = name
                /\ \A l \in (j + 1)..Len(pairs) : pairs[l][1] # name
     IN IF pairs[i][2].raised THEN UNKNOWN ELSE pairs[i][2].value]

\* a field task as asyncio.gather starts it
TaskStart ==
  [pc |-> "search", q |-> 1, probes |-> <<>>, all_chunks |-> <<>>,
   unique |-> <<>>, text |-> <<>>, gen |-> "none", value |-> <<>>,
   raised |-> FALSE]

ExIdle == [phase |-> "idle", task |-> <<>>, results |-> <<>>]

\* a cancellation that the task's "except Exception" catches: the probe
\* gives no chunks and the task goes on, the generation gives "Unknown"
cancel_task_caught(t) ==
  IF t.pc = "generate" THEN [t EXCEPT !.pc = "done", !.value = UNKNOWN]
  ELSE t

\* CancelledError raised in a field task at the call it is suspended in:
\* it is a BaseException, so neither "except Exception" of _search_chunks
\* nor that of extract_field catches it, and the task ends cancelled
cancel_task(t) ==
  IF t.pc = "done" THEN t ELSE [t EXCEPT !.pc = "cancelled"]

(***************************************************************************)
(* DocumentParserService._clean_extracted_value.                           *)
(***************************************************************************)
NONE_TEXT == <<"N","o","n","e">>

NA_TEXT == <<"N","/","A">>

prefixes_to_remove ==
  << <<"D","e","v","i","c","e"," ","N","a","m","e",":">>,
     <<"M","a","n","u","f","a","c","t","u","r","e","r",":">>,
     <<"I","n","d","i","c","a","t","i","o","n",":">>,
     <<"D","e","s","c","r","i","p","t","i","o","n",":">>,
     <<"A","n","s","w","e","r",":">>,
     <<"R","e","s","u","l","t",":">> >>

\* the loop over prefixes_to_remove
RECURSIVE RemovePrefixes(_, _)
RemovePrefixes(cleaned, prefixes) ==
  IF prefixes = <<>> THEN cleaned
  ELSE RemovePrefixes(
         IF StartsWith(cleaned, Head(prefixes))
           THEN Strip(SubSeq(cleaned, Len(Head(prefixes)) + 1, Len(cleaned)))
           ELSE cleaned,
         Tail(prefixes))

clean_extracted_value(value) ==
  IF value = <<>> \/ Strip(value) \in {<<>>, NONE_TEXT, NA_TEXT} THEN UNKNOWN
  ELSE LET cleaned == RemovePrefixes(Strip(value), prefixes_to_remove) IN
       IF cleaned = <<>> THEN UNKNOWN ELSE cleaned

\* a raw answer is made of at most MaxPieces of these pieces
MaxPieces == 2

Pieces ==
  Range(prefixes_to_remove)
    \cup {<<" ">>, <<"X">>, NONE_TEXT, NA_TEXT, UNKNOWN}

RECURSIVE Concatenations(_)
Concatenations(n) ==
  IF n = 0 THEN {<<>>}
  ELSE Concatenations(n - 1)
         \cup {s \o p : s \in Concatenations(n - 1), p \in Pieces}

RawAnswers == Concatenations(MaxPieces)

(***************************************************************************)
(* External IDs given to get_predicate_collection_name.                    *)
(***************************************************************************)
\* an external ID has 1..MaxIdLen characters
MaxIdLen == 2

IdAlphabet == {"K", "k", "1", "/", "\\", "_"}

ExternalIds == UNION {[1..n -> IdAlphabet] : n \in 1..MaxIdLen}

PvIdle == [fn |-> "none", args |-> <<>>, out |-> <<>>]

(***************************************************************************)
(* The discovery service: discover_predicates and the routes that call it. *)
(* The registry (openFDA) and the document server are collaborators whose  *)
(* replies are inputs.                                                     *)
(***************************************************************************)
\* what search_term and product_code can hold: None (or ""), or a text
Criteria == {None, <<"c">>}

\* a validation that accepts every request
accepts_all(params) == TRUE

\* the routes' validation: not (not search_term and not product_code)
has_search_criteria(params) ==
  ~(params.search_term = None /\ params.product_code = None)

\* _search_devices_api: the query it builds, "none" when it returns None
\* before any request
search_query(params) ==
  IF params.product_code # None /\ params.search_term # None
    THEN "product_code AND device_name"
  ELSE IF params.product_code # None THEN "product_code"
  ELSE IF params.search_term # None THEN "device_name"
  ELSE "none"

\* max_downloads ranges over 0..MaxDownloads
MaxDownloads == 2

\* a registry response holds at most MaxRecords records
MaxRecords == 3

\* the records the registry can return
RegistryRecords ==
  { [k_number |-> <<"K","0","7">>, statement_or_summary |-> <<"S","u","m","m","a","r","y">>,
     decision_date |-> "2020-01-01"],
    [k_number |-> <<"K","2","2">>, statement_or_summary |-> <<" ","s","t","a","t","e","m","e","n","t">>,
     decision_date |-> "2021-01-01"],
    [k_number |-> <<"K","0","0">>, statement_or_summary |-> <<>>,
     decision_date |-> "Unknown"],
    [k_number |-> <<"K","0">>, statement_or_summary |-> <<"S","u","m","m","a","r","y">>,
     decision_date |-> "2020-01-01"] }

Responses == UNION {[1..n -> RegistryRecords] : n \in 0..MaxRecords}

\* the registry request fails, or returns these results
RegistryReplies ==
  {[ok |-> FALSE, results |-> <<>>]}
    \cup {[ok |-> TRUE, results |-> r] : r \in Responses}

\* bool(statement_or_summary and statement_or_summary.lower() in [...])
has_510k_document(statement_or_summary) ==
  LET s == Strip(statement_or_summary) IN
  s # <<>> /\ Lower(s) \in {<<"s","u","m","m","a","r","y">>, <<"s","t","a","t","e","m","e","n","t">>}

\* _extract_device_info of the record at position pos of the response:
\* found is false when it returns None
extract_device_info(record, pos) ==
  [found |-> ~(record.k_number = <<>> \/ Len(record.k_number) < 3),
   pos |-> pos,
   k_number |-> record.k_number,
   has_510k_document |-> has_510k_document(record.statement_or_summary),
   decision_date |-> record.decision_date]

\* a year segment that always keeps both characters
get_year_digits_both(k_number) ==
  IF Len(k_number) < 3 THEN None ELSE SubSeq(k_number, 2, 3)

\* _get_year_digits: None for a key shorter than 3 characters
get_year_digits(k_number) ==
  IF Len(k_number) < 3 THEN None
  ELSE LET two_digit_year == SubSeq(k_number, 2, 3) IN
       IF StartsWith(two_digit_year, <<"0">>)
         THEN <<two_digit_year[2]>>
         ELSE two_digit_year

\* the year the date parses to; datetime.min for a date that does not parse
parse_date(date_str) ==
  IF date_str = "2020-01-01" THEN 2020
  ELSE IF date_str = "2021-01-01" THEN 2021
  ELSE 1

\* list.sort(key=parse_date(decision_date), reverse=True): stable
RECURSIVE InsertByDate(_, _)
InsertByDate(sorted, d) ==
  IF sorted = <<>> THEN <<d>>
  ELSE IF parse_date(Head(sorted).decision_date) >= parse_date(d.decision_date)
    THEN <<Head(sorted)>> \o InsertByDate(Tail(sorted), d)
    ELSE <<d>> \o sorted

RECURSIVE SortByDate(_)
SortByDate(devices) ==
  IF devices = <<>> THEN <<>>
  ELSE InsertByDate(SortByDate(SubSeq(devices, 1, Len(devices) - 1)),
                    devices[Len(devices)])

\* what the document server answers to a download
DownloadOutcomes == {"ok", "status", "raised"}

\* _download_device_pdf: the DownloadedDevice, found false when it returns
\* None (no URL, a status other than 200, or any exception)
download_device_pdf(device, outcome) ==
  LET year_digits == get_year_digits(device.k_number) IN
  [found |-> year_digits # None /\ outcome = "ok",
   pos |-> device.pos,
   k_number |-> device.k_number,
   pdf_url |-> <<year_digits, device.k_number>>]

\* a request of the discovery service, as the route hands it over
DiscoverStart(params, max_downloads) ==
  [op |-> "discover", pc |-> "search", status |-> "none", searched |-> FALSE,
   params |-> params, max_downloads |-> max_downloads, results |-> <<>>, i |-> 1,
   all_devices |-> <<>>, devices_with_510k |-> <<>>,
   devices_without_510k |-> <<>>, downloads |-> <<>>,
   downloads_attempted |-> 0, failed |-> {},
   summary |-> <<>>, sent |-> <<>>]

\* session.get of _search_devices_api: the one registry request of a
\* discovery, recorded in the requests the service has sent
issue_search(r) ==
  [r EXCEPT !.searched = TRUE,
            !.sent = Append(@, [what |-> "search", pos |-> 0])]

\* a summary that reports the default of max_downloads
summary_with_default(r) ==
  [total_found |-> Len(r.all_devices),
   devices_with_documents |-> Len(r.devices_with_510k),
   downloads_attempted |-> r.downloads_attempted,
   downloads_successful |-> Len(r.downloads),
   max_downloads_requested |-> 5]

\* PredicateSearchSummary of the request
summary_of(r) ==
  [total_found |-> Len(r.all_devices),
   devices_with_documents |-> Len(r.devices_with_510k),
   downloads_attempted |-> r.downloads_attempted,
   downloads_successful |-> Len(r.downloads),
   max_downloads_requested |-> r.max_downloads]

\* the result returned when the search gave nothing
empty_result(r) ==
  [r EXCEPT !.pc = "returned", !.status = "ok",
            !.summary = summary_of(DiscoverStart(r.params, r.max_downloads))]

\* a collection of metadata that lists a device with a document twice
collect_twice(r, device) ==
  [r EXCEPT
     !.all_devices = Append(@, device),
     !.devices_with_510k =
        IF device.has_510k_document THEN Append(@, device) ELSE @,
     !.devices_without_510k = Append(@, device)]

\* the device goes to all_devices and to one of the two lists
collect(r, device) ==
  [r EXCEPT
     !.all_devices = Append(@, device),
     !.devices_with_510k =
        IF device.has_510k_document THEN Append(@, device) ELSE @,
     !.devices_without_510k =
        IF device.has_510k_document THEN @ ELSE Append(@, device)]

\* a test that ignores the limit
should_download_any(r, device) == device.has_510k_document

\* len(downloads) < max_downloads and device_info.has_510k_document
should_download(r, device) ==
  Len(r.downloads) < r.max_downloads /\ device.has_510k_document

\* a download that is attempted a second time for the same record
attempt_download_again(r, device) ==
  [r EXCEPT !.downloads_attempted = @ + 1, !.pc = "download",
            !.sent = @ \o << [what |-> "download", pos |-> device.pos],
                             [what |-> "download", pos |-> device.pos] >>]

\* downloads_attempted += 1; await self._download_device_pdf(device_info)
attempt_download(r, device) ==
  [r EXCEPT !.downloads_attempted = @ + 1, !.pc = "download",
            !.sent = Append(@, [what |-> "download", pos |-> device.pos])]

\* a loop that ends at the first failed download
after_download_abort(r, device, result) ==
  IF result.found
    THEN [r EXCEPT !.downloads = Append(@, result), !.i = @ + 1,
                   !.pc = "loop"]
    ELSE [r EXCEPT !.failed = @ \cup {device.pos}, !.i = Len(r.results) + 1,
                   !.pc = "loop"]

\* the loop after a download: the result, if any, goes to downloads, and
\* the next record is processed
after_download(r, device, result) ==
  IF result.found
    THEN [r EXCEPT !.downloads = Append(@, result), !.i = @ + 1,
                   !.pc = "loop"]
    ELSE [r EXCEPT !.failed = @ \cup {device.pos}, !.i = @ + 1,
                   !.pc = "loop"]

(***************************************************************************)
(* The URL of a device's document, and extract_bulk_ifu.                   *)
(***************************************************************************)
\* the keys whose year segment is derived: at most MaxKeyLen characters
MaxKeyLen == 4

KeyAlphabet == {"K", "0", "2", "7"}

YearKeys == UNION {[1..n -> KeyAlphabet] : n \in 0..MaxKeyLen}

\* the path of the document below FDA_PDF_BASE_URL, None when no year
\* segment can be derived (no request is made then)
pdf_url_of(k_number, year_digits) ==
  IF year_digits = None THEN None
  ELSE <<"/", "p", "d", "f">> \o year_digits \o <<"/">> \o k_number
         \o <<".", "p", "d", "f">>

NOT_SPECIFIED == <<"N","o","t"," ","s","p","e","c","i","f","i","e","d">>

\* what _extract_ifu_from_pdf_content returns: None, or the stripped answer
IfuOutcomes == {None, NOT_SPECIFIED, UNKNOWN, <<"I", "F", "U">>}

\* what the registry knows of the K-number: nothing, a record, or a record
\* whose device_name is null
InfoOutcomes == {"none", "found", "null_name"}

\* the write to storage: done, reported as failed by upload_pdf, or raised
WriteOutcomes == {"ok", "failed", "raised"}

ItemOutcomes ==
  [info : InfoOutcomes, download : BOOLEAN, write : WriteOutcomes,
   ifu : IfuOutcomes]

NoOutcome == [info |-> "none", download |-> FALSE, write |-> "ok", ifu |-> None]

\* the K-numbers a bulk request can name
BulkKeys == {<<"K", "0", "7">>, <<"K", "2">>}

\* a bulk request names at most MaxBulk K-numbers
MaxBulk == 2

\* the route refuses more than this many K-numbers
MaxBulkRequest == 50

BulkRequests == UNION {[1..n -> BulkKeys] : n \in 0..MaxBulk}

\* the storage the service is configured with
Stores == {"r2", "local"}

Statuses == {"success", "no_pdf", "extraction_failed", "no_ifu_found"}

\* an extraction in which a failed write fails the item
extract_single_ifu_strict(k_number, store, o) ==
  [k_number |-> k_number, device_name |-> "Unknown", ifu_text |-> None,
   extraction_status |->
     IF o.write = "ok" /\ o.download /\ o.ifu = <<"I", "F", "U">>
       THEN "success" ELSE "extraction_failed",
   error_message |-> "none", pdf_url |-> None]

\* _extract_single_ifu: the IFUExtraction it returns. The model validation
\* of IFUExtraction raises on a null device_name, which the outer except
\* turns into "extraction_failed".
extract_single_ifu(k_number, store, o) ==
  LET device_name == IF o.info = "found" THEN "name"
                     ELSE IF o.info = "null_name" THEN "null" ELSE "Unknown"
      year_digits == get_year_digits(k_number)
      pdf_url == pdf_url_of(k_number, year_digits)
      pdf_save_success ==
        IF store = "r2" THEN o.write = "ok" ELSE o.write # "raised"
      storage_url ==
        IF store = "r2" /\ o.write = "ok"
          THEN <<"r", "2", ":">> \o k_number ELSE None
      extraction(status, message, text, url) ==
        [k_number |-> k_number, device_name |-> device_name,
         ifu_text |-> text, extraction_status |-> status,
         error_message |-> message, pdf_url |-> url]
      result ==
        IF year_digits = None
          THEN extraction("no_pdf", "Could not determine PDF URL pattern",
                          None, None)
        ELSE IF ~o.download
          THEN extraction("no_pdf", "PDF not accessible or not found",
                          None, pdf_url)
        ELSE IF o.ifu = None \/ Strip(o.ifu) \in {UNKNOWN, NOT_SPECIFIED, <<>>}
          THEN extraction("no_ifu_found",
                 IF pdf_save_success
                   THEN "IFU section not found in document"
                   ELSE "IFU section not found in document (Note: PDF download succeeded but storage save failed)",
                 None, pdf_url)
        ELSE extraction("success",
               IF pdf_save_success THEN "none"
               ELSE "PDF download succeeded but storage save failed",
               o.ifu,
               IF storage_url # None THEN storage_url ELSE pdf_url)
  IN IF device_name = "null"
       THEN [k_number |-> k_number, device_name |-> "Unknown",
             ifu_text |-> None, extraction_status |-> "extraction_failed",
             error_message |-> "validation error", pdf_url |-> None]
       ELSE result

\* the requests _extract_single_ifu sends for the K-number at a position
\* of the list: the registry lookup, then the document when a URL exists
requests_of(k_number, pos) ==
  << [what |-> "info", pos |-> pos] >> \o
  (IF get_year_digits(k_number) = None THEN <<>>
   ELSE << [what |-> "pdf", pos |-> pos] >>)

\* a loop body that keeps successful extractions only
record_successes(r, extraction) ==
  IF extraction.extraction_status = "success"
    THEN [r EXCEPT !.extractions = Append(@, extraction),
                   !.status_counts[extraction.extraction_status] = @ + 1]
    ELSE r

\* extractions.append(extraction); status_counts[status] += 1
record_extraction(r, extraction) ==
  [r EXCEPT !.extractions = Append(@, extraction),
            !.status_counts[extraction.extraction_status] = @ + 1]

BulkStart(k_numbers, store) ==
  [op |-> "bulk", pc |-> "loop", status |-> "none", store |-> store,
   k_numbers |-> k_numbers, i |-> 1, extractions |-> <<>>,
   status_counts |-> [s \in Statuses |-> 0], last |-> NoOutcome,
   total_processed |-> 0, sent |-> <<>>]

RqIdle == [op |-> "none"]

(***************************************************************************)
(* State.                                                                  *)
(*   colls    the index engine: collection name -> documents inserted      *)
(*   current  rag_service.current_predicate_k_number                       *)
(*   co[p]    the coroutine of caller p: where it is suspended             *)
(*   th[p]    the worker thread of caller p: where it is                   *)
(*   ret      what the step just taken returned to its caller              *)
(*   ex       the extract_all_fields call in flight: one task per field    *)
(*   pv       a pure function under test: its arguments and its results    *)
(*   rq       the discovery or bulk request in flight in the service       *)
(***************************************************************************)
NoRet == [op |-> "none", who |-> "-", key |-> None, name |-> None,
          status |-> "none", err |-> "none", n |-> 0, deleted |-> <<>>,
          rd |-> FALSE, listed |-> <<>>]

CoIdle == [pc |-> "idle", op |-> "none", key |-> None, n |-> 0]

ThIdle == [pc |-> "idle", key |-> None, tool |-> FALSE]

Init ==
  /\ colls = (GUIDELINES :> <<GuidelinesPoints>>) @@ (LEGACY :> <<>>)
  /\ current = None
  /\ co = [p \in Procs |-> CoIdle]
  /\ th = [p \in Procs |-> ThIdle]
  /\ ret = NoRet
  /\ ex = ExIdle
  /\ rq = RqIdle
  /\ pv = PvIdle

\* a system-wide lock: a call on the event loop waits until no operation
\* is in flight
NoOperationInFlight ==
  \A q \in Procs : co[q].pc = "idle" /\ th[q].pc = "idle"

\* no coroutine is inside a synchronous stretch: the event loop is free
LoopFree == \A q \in Procs : co[q].pc # "ld_create"

Free(p) == co[p].pc = "idle" /\ th[p].pc = "idle"

(***************************************************************************)
(* Synchronous manager calls made on the event loop.                       *)
(***************************************************************************)
Delete(k) ==
  /\ LoopFree
  /\ LET r == delete_predicate_collection(colls, k) IN
       /\ colls' = r.colls
       /\ ret' = [NoRet EXCEPT !.op = "delete", !.key = k,
                    !.status = IF r.ok THEN "true" ELSE "false"]
  /\ UNCHANGED <<current, co, th>>
  /\ UNCHANGED <<ex, pv, rq>>

Cleanup(keep_count, order) ==
  /\ LoopFree
  /\ LET r == cleanup_old_collections(colls, order, keep_count) IN
       /\ colls' = r.colls
       /\ ret' = [NoRet EXCEPT !.op = "cleanup", !.n = keep_count,
                    !.deleted = r.deleted]
  /\ UNCHANGED <<current, co, th>>
  /\ UNCHANGED <<ex, pv, rq>>

(***************************************************************************)
(* get_predicate_vector_store on a worker thread: the existence check and  *)
(* the create are two calls to the engine.                                 *)
(***************************************************************************)
GetStoreCheck(p, k) ==
  /\ Free(p)
  /\ IF predicate_collection_exists(colls, k)
       THEN /\ th' = th
            /\ ret' = [NoRet EXCEPT !.op = "get_store", !.who = p, !.key = k,
                         !.name = NameTable[k], !.status = "store"]
       ELSE /\ th' = [th EXCEPT ![p] = [pc |-> "create", key |-> k,
                                       tool |-> FALSE]]
            /\ ret' = NoRet
  /\ UNCHANGED <<colls, current, co>>
  /\ UNCHANGED <<ex, pv, rq>>

\* create_collection: the engine refuses a name that exists. A tool call
\* goes on to search the collection it created.
GetStoreCreate(p) ==
  /\ th[p].pc = "create"
  /\ LET name == NameTable[th[p].key]
         r == [NoRet EXCEPT
                 !.op = IF th[p].tool THEN "retrieve" ELSE "get_store",
                 !.who = p, !.key = th[p].key, !.name = name]
     IN IF collection_exists(colls, name)
          THEN /\ colls' = colls
               /\ ret' = [r EXCEPT !.status = "raised", !.err = "conflict"]
          ELSE /\ colls' = create_collection(colls, name)
               /\ ret' = [r EXCEPT !.status = "created"]
  /\ th' = [th EXCEPT ![p] = ThIdle]
  /\ UNCHANGED <<current, co>>
  /\ UNCHANGED <<ex, pv, rq>>

(***************************************************************************)
(* The loaders: load_predicate_to_collection (op "load"), called directly  *)
(* or through load_predicate_pdf_to_vector_store (op "svc"), itself called *)
(* directly or by check_predicate_equivalence (op "equiv").                *)
(***************************************************************************)
\* what the caller of a loader gets when the load fails with error e
Failed(p, e) ==
  [NoRet EXCEPT
     !.op = IF co[p].op = "load" THEN "load"
            ELSE IF co[p].op = "svc" THEN "svc_load" ELSE "equiv",
     !.who = p, !.key = co[p].key, !.err = e, !.rd = TRUE,
     !.status = IF co[p].op = "load" THEN "raised"
                ELSE IF co[p].op = "svc" THEN "false" ELSE "load_failed"]

LoadStart(p, k, pdf) ==
  /\ Free(p) /\ LoopFree
  /\ LET r == LoadStretch(colls, k, pdf)
         out == [NoRet EXCEPT !.op = "load", !.who = p, !.key = k,
                              !.status = r.status, !.rd = r.rd]
     IN CASE r.status = "exists" ->
               /\ co' = co
               /\ ret' = [out EXCEPT !.n = points_count(colls, NameTable[k])]
          [] r.status = "raised" ->
               /\ co' = co
               /\ ret' = [out EXCEPT !.err = "loader"]
          [] OTHER ->
               /\ co' = [co EXCEPT ![p] =
                    [pc |-> IF r.status = "create" THEN "ld_create"
                            ELSE "ld_insert",
                     op |-> "load", key |-> k, n |-> pdf]]
               /\ ret' = NoRet
  /\ UNCHANGED <<colls, current, th>>
  /\ UNCHANGED <<ex, pv, rq>>

SvcStart(p, k, src, n) ==
  /\ Free(p) /\ LoopFree
  /\ LET r == SvcStretch(colls, k, src, n)
         out == [NoRet EXCEPT !.op = "svc_load", !.who = p, !.key = k,
                              !.status = r.status, !.rd = r.rd]
     IN IF r.status \in {"true", "false"}
          THEN /\ co' = co
               /\ ret' = out
          ELSE /\ co' = [co EXCEPT ![p] =
                    [pc |-> IF r.status = "create" THEN "ld_create"
                            ELSE "ld_insert",
                     op |-> "svc", key |-> k, n |-> n]]
               /\ ret' = NoRet
  /\ UNCHANGED <<colls, current, th>>
  /\ UNCHANGED <<ex, pv, rq>>

\* get_predicate_vector_store inside the loader: the create, then the
\* coroutine suspends in aadd_documents
LoadCreate(p) ==
  /\ co[p].pc = "ld_create"
  /\ LET name == NameTable[co[p].key] IN
       IF collection_exists(colls, name)
         THEN /\ colls' = colls
              /\ co' = [co EXCEPT ![p] = CoIdle]
              /\ ret' = Failed(p, "conflict")
         ELSE /\ colls' = create_collection(colls, name)
              /\ co' = [co EXCEPT ![p].pc = "ld_insert"]
              /\ ret' = NoRet
  /\ UNCHANGED <<current, th>>
  /\ UNCHANGED <<ex, pv, rq>>

\* aadd_documents completes (ok), or fails; then the summary is extracted
\* and the loader returns. check_predicate_equivalence goes on to
\* set_current_predicate and suspends in the analysis.
LoadInsert(p, ok) ==
  /\ co[p].pc = "ld_insert" /\ LoopFree
  /\ LET name == NameTable[co[p].key] IN
       IF ok /\ collection_exists(colls, name)
         THEN /\ colls' = upsert(colls, name, co[p].n)
              /\ IF co[p].op = "equiv"
                   THEN /\ current' = co[p].key
                        /\ co' = [co EXCEPT ![p].pc = "analysis"]
                        /\ ret' = NoRet
                   ELSE /\ current' = current
                        /\ co' = [co EXCEPT ![p] = CoIdle]
                        /\ ret' = [NoRet EXCEPT
                             !.op = IF co[p].op = "load" THEN "load"
                                    ELSE "svc_load",
                             !.who = p, !.key = co[p].key, !.rd = TRUE,
                             !.n = co[p].n,
                             !.status = IF co[p].op = "load" THEN "loaded"
                                        ELSE "true"]
         ELSE /\ colls' = colls
              /\ current' = current
              /\ co' = [co EXCEPT ![p] = CoIdle]
              /\ ret' = Failed(p, "insert")
  /\ th' = th
  /\ UNCHANGED <<ex, pv, rq>>

(***************************************************************************)
(* check_predicate_equivalence, and the retrieval tool its analysis runs   *)
(* on a worker thread.                                                     *)
(***************************************************************************)
Outcomes == {"returned", "raised", "cancelled"}

EqStart(p, k, valid, src, n) ==
  /\ Free(p) /\ LoopFree
  /\ LET out == [NoRet EXCEPT !.op = "equiv", !.who = p, !.key = k] IN
     IF ~valid \/ k = None
       THEN /\ UNCHANGED <<current, co>>
            /\ ret' = [out EXCEPT !.status = "rejected"]
       ELSE LET r == SvcStretch(colls, k, src, n) IN
            CASE r.status = "true" ->
                   /\ current' = k
                   /\ co' = [co EXCEPT ![p] =
                        [pc |-> "analysis", op |-> "equiv", key |-> k,
                         n |-> 0]]
                   /\ ret' = NoRet
              [] r.status = "false" ->
                   /\ UNCHANGED <<current, co>>
                   /\ ret' = [out EXCEPT !.status = "load_failed"]
              [] OTHER ->
                   /\ current' = current
                   /\ co' = [co EXCEPT ![p] =
                        [pc |-> IF r.status = "create" THEN "ld_create"
                                ELSE "ld_insert",
                         op |-> "equiv", key |-> k, n |-> n]]
                   /\ ret' = NoRet
  /\ UNCHANGED <<colls, th>>
  /\ UNCHANGED <<ex, pv, rq>>

\* get_predicate_device_retriever: the test of current_predicate_k_number
ToolRead(p) ==
  /\ co[p].pc = "analysis" /\ th[p].pc = "idle"
  /\ IF current # None
       THEN /\ th' = [th EXCEPT ![p].pc = "branch"]
            /\ ret' = NoRet
       ELSE /\ th' = th
            /\ ret' = [NoRet EXCEPT !.op = "retrieve", !.who = p,
                         !.name = LEGACY,
                         !.status = IF collection_exists(colls, LEGACY)
                                    THEN "store" ELSE "raised"]
  /\ UNCHANGED <<colls, current, co>>
  /\ UNCHANGED <<ex, pv, rq>>

\* ... and the second read of it, passed to get_predicate_vector_store
ToolCheck(p) ==
  /\ th[p].pc = "branch"
  /\ LET out == [NoRet EXCEPT !.op = "retrieve", !.who = p,
                              !.key = current] IN
     IF current = None
       THEN /\ th' = [th EXCEPT ![p] = ThIdle]
            /\ ret' = [out EXCEPT !.status = "raised", !.err = "none_key"]
       ELSE IF predicate_collection_exists(colls, current)
         THEN /\ th' = [th EXCEPT ![p] = ThIdle]
              /\ ret' = [out EXCEPT !.status = "store",
                                    !.name = NameTable[current]]
         ELSE /\ th' = [th EXCEPT ![p] = [pc |-> "create", key |-> current,
                                         tool |-> TRUE]]
              /\ ret' = NoRet
  /\ UNCHANGED <<colls, current, co>>
  /\ UNCHANGED <<ex, pv, rq>>

\* the analysis ends and the finally block runs
EqFinish(p, outcome) ==
  /\ co[p].pc = "analysis" /\ LoopFree
  /\ outcome = "returned" => th[p].pc = "idle"
  /\ current' = ClearOnExit(outcome, current)
  /\ co' = [co EXCEPT ![p] = CoIdle]
  /\ ret' = [NoRet EXCEPT !.op = "equiv", !.who = p, !.key = co[p].key,
                          !.status = outcome]
  /\ UNCHANGED <<colls, th>>
  /\ UNCHANGED <<ex, pv, rq>>

(***************************************************************************)
(* Specifications.                                                         *)
(***************************************************************************)
\* the cache under concurrent callers of the manager and of the loaders
Next ==
  \/ \E k \in AllKeys : Delete(k)
  \/ \E n \in 0..MaxKeep : \E order \in Enumerations(colls) : Cleanup(n, order)
  \/ \E p \in Procs : \E k \in AllKeys : GetStoreCheck(p, k)
  \/ \E p \in Procs : GetStoreCreate(p)
  \/ \E p \in Procs : \E k \in AllKeys : \E pdf \in Pdfs : LoadStart(p, k, pdf)
  \/ \E p \in Procs : \E k \in AllKeys : \E src \in Sources :
       \E n \in 0..MaxChunks : SvcStart(p, k, src, n)
  \/ \E p \in Procs : LoadCreate(p)
  \/ \E p \in Procs : \E ok \in BOOLEAN : LoadInsert(p, ok)

Spec == Init /\ [][Next]_vars

\* concurrent check_predicate_equivalence requests, while collections are
\* deleted under them
NextSel ==
  \/ \E p \in Procs : \E k \in AllKeys \cup {None} : \E valid \in BOOLEAN :
       \E src \in Sources : \E n \in 0..MaxChunks : EqStart(p, k, valid, src, n)
  \/ \E p \in Procs : LoadCreate(p)
  \/ \E p \in Procs : \E ok \in BOOLEAN : LoadInsert(p, ok)
  \/ \E p \in Procs : ToolRead(p)
  \/ \E p \in Procs : ToolCheck(p)
  \/ \E p \in Procs : GetStoreCreate(p)
  \/ \E p \in Procs : \E outcome \in Outcomes : EqFinish(p, outcome)
  \/ \E k \in AllKeys : Delete(k)

SpecSel == Init /\ [][NextSel]_vars

(***************************************************************************)
(* extract_all_fields: one task per configured field, run concurrently.    *)
(***************************************************************************)
\* the call creates its tasks and suspends in asyncio.gather
ExStart ==
  /\ ex.phase = "idle"
  /\ ex' = [phase |-> "running", task |-> [f \in FieldNames |-> TaskStart],
            results |-> <<>>]
  /\ UNCHANGED <<colls, current, co, th, ret, pv, rq>>

\* one probe of field f completes with this outcome; after the last probe
\* the task removes duplicates, joins the text, and returns "Unknown" or
\* suspends in the generation call
Search(f, outcome) ==
  /\ ex.phase \in {"running", "cancelled"}
  /\ ex.task[f].pc = "search"
  /\ LET t == ex.task[f]
         queries == EXTRACTION_CONFIG[f].queries
         all_chunks == t.all_chunks \o search_chunks(outcome, queries[t.q])
         probed == [t EXCEPT !.all_chunks = all_chunks,
                             !.probes = Append(@, outcome.raised)]
         unique == unique_chunks(all_chunks)
         text == combined_text(unique)
     IN ex' = [ex EXCEPT !.task[f] =
          IF t.q < Len(queries) THEN [probed EXCEPT !.q = t.q + 1]
          ELSE IF Strip(text) = <<>>
            THEN [probed EXCEPT !.unique = unique, !.text = text,
                                !.pc = "done", !.value = UNKNOWN]
            ELSE [probed EXCEPT !.unique = unique, !.text = text,
                                !.pc = "generate"]]
  /\ UNCHANGED <<colls, current, co, th, ret, pv, rq>>

\* the generation call of field f completes with this outcome
Generate(f, outcome) ==
  /\ ex.phase \in {"running", "cancelled"}
  /\ ex.task[f].pc = "generate"
  /\ ex' = [ex EXCEPT !.task[f] =
       [@ EXCEPT !.pc = "done",
                 !.gen = IF outcome.raised THEN "raised" ELSE "returned",
                 !.value = generated_value(outcome)]]
  /\ UNCHANGED <<colls, current, co, th, ret, pv, rq>>

\* every task is done: gather returns and the results are built
Gather ==
  /\ ex.phase = "running"
  /\ \A f \in FieldNames : ex.task[f].pc = "done"
  /\ ex' = [ex EXCEPT
       !.phase = "returned",
       !.results = build_results(
          Zip(FieldOrder,
              [i \in 1..Len(FieldOrder) |-> ex.task[FieldOrder[i]]]))]
  /\ UNCHANGED <<colls, current, co, th, ret, pv, rq>>

\* the request is cancelled while it awaits asyncio.gather: gather cancels
\* every task that is not done and then raises CancelledError itself, so
\* no result dictionary is built
Cancel ==
  /\ ex.phase = "running"
  /\ ex' = [ex EXCEPT
       !.phase = "cancelled",
       !.task = [f \in FieldNames |-> cancel_task(ex.task[f])]]
  /\ UNCHANGED <<colls, current, co, th, ret, pv, rq>>

NextEx ==
  \/ ExStart
  \/ Cancel
  \/ \E f \in FieldNames : \E outcome \in ProbeOutcomes : Search(f, outcome)
  \/ \E f \in FieldNames : \E outcome \in GenOutcomes : Generate(f, outcome)
  \/ Gather

SpecEx == Init /\ [][NextEx]_vars

(***************************************************************************)
(* _clean_extracted_value applied to a raw answer, then to its own result. *)
(***************************************************************************)
InitClean ==
  /\ colls = (GUIDELINES :> <<GuidelinesPoints>>) @@ (LEGACY :> <<>>)
  /\ current = None
  /\ co = [p \in Procs |-> CoIdle]
  /\ th = [p \in Procs |-> ThIdle]
  /\ ret = NoRet
  /\ ex = ExIdle
  /\ rq = RqIdle
  /\ pv \in {[fn |-> "clean", args |-> <<raw>>, out |-> <<>>] :
               raw \in RawAnswers}

CleanValue ==
  /\ pv.fn = "clean" /\ pv.out = <<>>
  /\ pv' = [pv EXCEPT !.out = <<clean_extracted_value(pv.args[1])>>]
  /\ UNCHANGED <<colls, current, co, th, ret, ex, rq>>

CleanAgain ==
  /\ pv.fn = "clean" /\ Len(pv.out) = 1
  /\ pv' = [pv EXCEPT !.out = Append(@, clean_extracted_value(pv.out[1]))]
  /\ UNCHANGED <<colls, current, co, th, ret, ex, rq>>

NextClean == CleanValue \/ CleanAgain

SpecClean == InitClean /\ [][NextClean]_vars

(***************************************************************************)
(* get_predicate_collection_name applied to two external IDs, then to the  *)
(* first of them again.                                                    *)
(***************************************************************************)
InitKey ==
  /\ colls = (GUIDELINES :> <<GuidelinesPoints>>) @@ (LEGACY :> <<>>)
  /\ current = None
  /\ co = [p \in Procs |-> CoIdle]
  /\ th = [p \in Procs |-> ThIdle]
  /\ ret = NoRet
  /\ ex = ExIdle
  /\ rq = RqIdle
  /\ pv \in {[fn |-> "name", args |-> <<a, b>>, out |-> <<>>] :
               a \in ExternalIds, b \in ExternalIds}

DeriveNames ==
  /\ pv.fn = "name" /\ pv.out = <<>>
  /\ pv' = [pv EXCEPT !.out = <<get_predicate_collection_name(pv.args[1]),
                                get_predicate_collection_name(pv.args[2])>>]
  /\ UNCHANGED <<colls, current, co, th, ret, ex, rq>>

DeriveAgain ==
  /\ pv.fn = "name" /\ Len(pv.out) = 2
  /\ pv' = [pv EXCEPT
       !.out = Append(@, get_predicate_collection_name(pv.args[1]))]
  /\ UNCHANGED <<colls, current, co, th, ret, ex, rq>>

NextKey == DeriveNames \/ DeriveAgain

SpecKey == InitKey /\ [][NextKey]_vars

(***************************************************************************)
(* The collection routes: DELETE /collections/cleanup and                  *)
(* GET /collections/list, on a cache that holds a collection per device.   *)
(***************************************************************************)
\* if keep_count < 5: raise HTTPException(400)
MinKeepCount == 5

\* the largest keep_count a cleanup request carries
MaxRouteKeep == 6

\* the cache after its device collections were created, each one empty or
\* loaded with a document
InitRoute ==
  /\ \E loaded \in SUBSET RouteKeys :
       colls = [name \in {GUIDELINES, LEGACY}
                          \cup {NameTable[k] : k \in RouteKeys} |->
                  IF name = GUIDELINES THEN <<GuidelinesPoints>>
                  ELSE IF \E k \in loaded : NameTable[k] = name
                    THEN <<MaxChunks>>
                  ELSE <<>>]
  /\ current = None
  /\ co = [p \in Procs |-> CoIdle]
  /\ th = [p \in Procs |-> ThIdle]
  /\ ret = NoRet
  /\ ex = ExIdle
  /\ rq = RqIdle
  /\ pv = PvIdle

\* the device collections in the order of their creation
CreationOrder ==
  << NameTable[<<"K","2">>], NameTable[<<"K","3">>], NameTable[<<"K","4">>],
     NameTable[<<"K","5">>], NameTable[<<"K","6">>] >>

Reverse(s) == [i \in 1..Len(s) |-> s[Len(s) + 1 - i]]

\* orders in which the engine enumerates its collections: by creation or
\* the reverse, restricted to the collections that exist
RouteEnumerations(c) ==
  LET created == <<GUIDELINES, LEGACY>> \o CreationOrder
      existing(order) == SelectSeq(order, LAMBDA name : name \in DOMAIN c)
  IN {existing(created), existing(Reverse(created)),
      existing(<<GUIDELINES>> \o CreationOrder \o <<LEGACY>>),
      existing(<<LEGACY>> \o Reverse(CreationOrder) \o <<GUIDELINES>>)}

\* the route cleanup_old_collections: the check of keep_count, then the
\* manager's cleanup
CleanupRoute(keep_count, order) ==
  /\ LoopFree
  /\ IF keep_count < MinKeepCount
       THEN /\ colls' = colls
            /\ ret' = [NoRet EXCEPT !.op = "cleanup_route",
                         !.n = keep_count, !.status = "400"]
       ELSE LET r == cleanup_old_collections(colls, order, keep_count) IN
            /\ colls' = r.colls
            /\ ret' = [NoRet EXCEPT !.op = "cleanup_route",
                         !.n = keep_count, !.status = "ok",
                         !.deleted = r.deleted]
  /\ UNCHANGED <<current, co, th, ex, pv, rq>>

\* the route list_predicate_collections
ListRoute(order) ==
  /\ LoopFree
  /\ ret' = [NoRet EXCEPT !.op = "list", !.status = "ok",
               !.listed = list_predicate_collections(order)]
  /\ UNCHANGED <<colls, current, co, th, ex, pv, rq>>

NextRoute ==
  \/ \E keep_count \in 0..MaxRouteKeep :
       \E order \in RouteEnumerations(colls) : CleanupRoute(keep_count, order)
  \/ \E order \in RouteEnumerations(colls) : ListRoute(order)

SpecRoute == InitRoute /\ [][NextRoute]_vars

(***************************************************************************)
(* discover_predicate_devices / search_devices_only and discover_predicates.*)
(***************************************************************************)
\* the route validates the criteria and calls discover_predicates, which
\* suspends in the registry request
DiscoverRequest(route, params, max_downloads) ==
  /\ rq.op = "none"
  /\ LET r == DiscoverStart(params,
                          IF route = "search" THEN 0 ELSE max_downloads) IN
     rq' = IF ~has_search_criteria(params)
             THEN [r EXCEPT !.pc = "rejected", !.status = "400"]
           ELSE IF search_query(params) = "none"
             THEN empty_result(r)
           ELSE issue_search(r)
  /\ UNCHANGED <<colls, current, co, th, ret, ex, pv>>

\* the registry request ends: a failure or no results give the empty result
RegistryReply(reply) ==
  /\ rq.op = "discover" /\ rq.pc = "search"
  /\ rq' = IF ~reply.ok \/ reply.results = <<>>
             THEN empty_result(rq)
             ELSE [rq EXCEPT !.pc = "loop", !.results = reply.results]
  /\ UNCHANGED <<colls, current, co, th, ret, ex, pv>>

\* one iteration of the loop, up to the download it may start
ProcessRecord ==
  /\ rq.op = "discover" /\ rq.pc = "loop"
  /\ rq.i <= Len(rq.results)
  /\ LET device == extract_device_info(rq.results[rq.i], rq.i) IN
     rq' = IF ~device.found THEN [rq EXCEPT !.i = @ + 1]
           ELSE LET r == collect(rq, device) IN
                IF should_download(r, device)
                  THEN attempt_download(r, device)
                  ELSE [r EXCEPT !.i = @ + 1]
  /\ UNCHANGED <<colls, current, co, th, ret, ex, pv>>

\* the download of the current device ends
DownloadReply(outcome) ==
  /\ rq.op = "discover" /\ rq.pc = "download"
  /\ LET device == rq.all_devices[Len(rq.all_devices)] IN
     rq' = after_download(rq, device, download_device_pdf(device, outcome))
  /\ UNCHANGED <<colls, current, co, th, ret, ex, pv>>

\* the loop is over: the two lists are sorted and the result is returned
DiscoverReturn ==
  /\ rq.op = "discover" /\ rq.pc = "loop"
  /\ rq.i > Len(rq.results)
  /\ LET r == [rq EXCEPT
                 !.devices_with_510k = SortByDate(@),
                 !.devices_without_510k = SortByDate(@)]
     IN rq' = [r EXCEPT !.pc = "returned", !.status = "ok",
                        !.summary = summary_of(r)]
  /\ UNCHANGED <<colls, current, co, th, ret, ex, pv>>

NextDisc ==
  \/ \E route \in {"discover", "search"} :
       \E term \in Criteria : \E code \in Criteria :
         \E max_downloads \in 0..MaxDownloads :
           DiscoverRequest(route,
                           [search_term |-> term, product_code |-> code],
                           max_downloads)
  \/ \E reply \in RegistryReplies : RegistryReply(reply)
  \/ ProcessRecord
  \/ \E outcome \in DownloadOutcomes : DownloadReply(outcome)
  \/ DiscoverReturn

SpecDisc == Init /\ [][NextDisc]_vars

(***************************************************************************)
(* fetch_bulk_ifu and extract_bulk_ifu.                                    *)
(***************************************************************************)
BulkRequest(k_numbers, store) ==
  /\ rq.op = "none"
  /\ rq' = IF k_numbers = <<>> \/ Len(k_numbers) > MaxBulkRequest
             THEN [BulkStart(k_numbers, store) EXCEPT
                     !.pc = "rejected", !.status = "400"]
             ELSE BulkStart(k_numbers, store)
  /\ UNCHANGED <<colls, current, co, th, ret, ex, pv>>

\* _extract_single_ifu of the next K-number, with these outcomes of its
\* registry request, download, write and extraction
BulkItem(o) ==
  /\ rq.op = "bulk" /\ rq.pc = "loop"
  /\ rq.i <= Len(rq.k_numbers)
  /\ rq.store = "local" => o.write # "failed"
  /\ rq' = [record_extraction(rq,
              extract_single_ifu(rq.k_numbers[rq.i], rq.store, o))
            EXCEPT !.i = @ + 1, !.last = o,
                   !.sent = @ \o requests_of(rq.k_numbers[rq.i], rq.i)]
  /\ UNCHANGED <<colls, current, co, th, ret, ex, pv>>

BulkReturn ==
  /\ rq.op = "bulk" /\ rq.pc = "loop"
  /\ rq.i > Len(rq.k_numbers)
  /\ rq' = [rq EXCEPT !.pc = "returned", !.status = "ok",
                      !.last = NoOutcome,
                      !.total_processed = Len(rq.k_numbers)]
  /\ UNCHANGED <<colls, current, co, th, ret, ex, pv>>

NextBulk ==
  \/ \E k_numbers \in BulkRequests : \E store \in Stores :
       BulkRequest(k_numbers, store)
  \/ \E o \in ItemOutcomes : BulkItem(o)
  \/ BulkReturn

SpecBulk == Init /\ [][NextBulk]_vars

\* the requests of both services
NextReq == NextDisc \/ NextBulk

SpecReq == Init /\ [][NextReq]_vars

(***************************************************************************)
(* _get_year_digits applied to a key, then the URL built from it.          *)
(***************************************************************************)
InitYear ==
  /\ colls = (GUIDELINES :> <<GuidelinesPoints>>) @@ (LEGACY :> <<>>)
  /\ current = None
  /\ co = [p \in Procs |-> CoIdle]
  /\ th = [p \in Procs |-> ThIdle]
  /\ ret = NoRet
  /\ ex = ExIdle
  /\ rq = RqIdle
  /\ pv \in {[fn |-> "year", args |-> <<k>>, out |-> <<>>] : k \in YearKeys}

DeriveYear ==
  /\ pv.fn = "year" /\ pv.out = <<>>
  /\ pv' = [pv EXCEPT !.out = <<get_year_digits(pv.args[1])>>]
  /\ UNCHANGED <<colls, current, co, th, ret, ex, rq>>

DeriveUrl ==
  /\ pv.fn = "year" /\ Len(pv.out) = 1
  /\ pv' = [pv EXCEPT !.out = Append(@, pdf_url_of(pv.args[1], pv.out[1]))]
  /\ UNCHANGED <<colls, current, co, th, ret, ex, rq>>

NextYear == DeriveYear \/ DeriveUrl

SpecYear == InitYear /\ [][NextYear]_vars

(***************************************************************************)
(* Properties.                                                             *)
(***************************************************************************)
AllIdle == \A p \in Procs : co[p].pc = "idle" /\ th[p].pc = "idle"

Max(a, b) == IF a >= b THEN a ELSE b

\* the predicate collections of an engine state
PredicateIn(c) == DOMAIN c \cap PredicateNames

\* C1: concurrent get_predicate_vector_store(k) calls issue create_collection
\* once: no caller issues a create for a collection that already exists
\* (the engine refuses such a create, and the call raises).
C1_SingleCreate == ret.err # "conflict"

\* C2: when all calls have finished, no collection holds the chunks of one
\* document twice: concurrent loads of the same document insert it once.
C2_NoDuplicateChunks ==
  AllIdle =>
    \A name \in DOMAIN colls :
      \A i, j \in 1..Len(colls[name]) :
        i # j => colls[name][i] # colls[name][j]

\* C3: a loader called while the key's collection exists with
\* points_count > 0 returns the hit at once ("exists" / True), reads no
\* document, and leaves every collection and every caller as they were.
C3_CacheHitImmutable ==
  [][\A p \in Procs : \A k \in AllKeys :
       ( /\ co[p].pc = "idle"
         /\ \/ co'[p].pc # "idle" /\ co'[p].key = k
            \/ ret'.op \in {"load", "svc_load"} /\ ret'.who = p /\ ret'.key = k
         /\ NameTable[k] \in DOMAIN colls
         /\ Sum(colls[NameTable[k]]) > 0 )
       => ( /\ ret'.op \in {"load", "svc_load"}
            /\ ret'.status \in {"exists", "true"}
            /\ ~ret'.rd
            /\ colls' = colls
            /\ co' = co )]_vars

C3_Witness ==
  ret.op = "load" /\ ret.status = "exists" /\ ret.n > 0 /\ ~ret.rd

\* C4: while two requests with different predicates are both in their
\* analysis, every retrieval one of them performs reads the collection of
\* its own predicate (not the other's, and not the legacy collection).
C4_RequestScoped ==
  ( /\ ret.op = "retrieve"
    /\ co[ret.who].pc = "analysis"
    /\ \E q \in Procs \ {ret.who} :
         co[q].pc = "analysis" /\ co[q].key # co[ret.who].key )
    => ret.name = NameTable[co[ret.who].key]

\* C5: the step by which a request leaves its analysis, however it ends,
\* clears the current predicate; and while no request is in its analysis
\* the current predicate is None.
C5_ClearOnEveryExit ==
  /\ [][\A p \in Procs :
          (co[p].pc = "analysis" /\ co'[p].pc # "analysis")
            => current' = None]_vars
  /\ []((\A p \in Procs : co[p].pc # "analysis") => current = None)

C5_Witness ==
  ret.op = "equiv" /\ ret.status = "cancelled" /\ current = None

\* C6: the guidelines collection exists, with the points it was given at
\* startup, in every reachable state.
C6_GuidelinesPermanent ==
  /\ GUIDELINES \in DOMAIN colls
  /\ colls[GUIDELINES] = <<GuidelinesPoints>>

C6_Witness ==
  /\ ret.op = "cleanup" /\ ret.n = 0 /\ ret.deleted # <<>>
  /\ GUIDELINES \in DOMAIN colls
  /\ LEGACY \notin DOMAIN colls

\* C7: when cleanup_old_collections(N) returns, at most N predicate
\* collections exist, and it has deleted max(0, total - N) of them.
C7_EvictToCapacity ==
  [][ret'.op = "cleanup" =>
       /\ Cardinality(PredicateIn(colls')) <= ret'.n
       /\ Cardinality(DOMAIN colls \ DOMAIN colls')
            = Max(0, Cardinality(PredicateIn(colls)) - ret'.n)]_vars

\* C8: every collection cleanup_old_collections deletes has a
\* points_count no greater than that of every predicate collection it keeps.
C8_LowestCountEvicted ==
  [][ret'.op = "cleanup" =>
       \A gone \in DOMAIN colls \ DOMAIN colls' :
         \A kept \in PredicateIn(colls') :
           points_count(colls, gone) <= points_count(colls, kept)]_vars

\* C9: the collections cleanup_old_collections(N) deletes do not depend on
\* the order in which the engine enumerates them.
C9_OrderIndependent ==
  [][ret'.op = "cleanup" =>
       \A order \in Enumerations(colls) :
         cleanup_old_collections(colls, order, ret'.n).colls = colls']_vars

\* C10: a K-number is in the list cleanup_old_collections returns if and
\* only if the call removed that K-number's collection.
C10_ReturnsDeleted ==
  [][ret'.op = "cleanup" =>
       {NameTable[k] : k \in Range(ret'.deleted)}
         = DOMAIN colls \ DOMAIN colls']_vars

\* the field tasks of the extract_all_fields call whose probes are over
Probed(f) == ex.phase # "idle" /\ ex.task[f].pc \in {"generate", "done"}

\* every probe of the task raised, or its generation call raised
Failing(t) ==
  \/ t.probes # <<>> /\ \A i \in 1..Len(t.probes) : t.probes[i]
  \/ t.gen = "raised"

AllBlank(s) == \A i \in 1..Len(s) : s[i] \in Whitespace

\* C11: the mapping extract_all_fields returns has exactly the configured
\* field names as its keys, whatever the outcome of each field.
C11_CompleteMapping ==
  ex.phase = "returned" => DOMAIN ex.results = FieldNames

C11_Witness ==
  /\ ex.phase = "returned"
  /\ DOMAIN ex.results = FieldNames
  /\ \A f \in FieldNames : Failing(ex.task[f]) /\ ex.results[f] = UNKNOWN
  /\ \E f \in FieldNames : ex.task[f].gen = "raised"
  /\ \E f \in FieldNames : ex.task[f].gen = "none"

\* C12: a step of one field's task changes no other field's task; and in
\* the mapping returned every field has the value its own task resolved
\* to, which is "Unknown" for a field whose probes all raised or whose
\* generation call raised.
C12_FailuresIsolated ==
  /\ [][\A f \in FieldNames :
          (ex.phase = "running" /\ ex'.phase = "running"
             /\ ex'.task[f] # ex.task[f])
            => \A g \in FieldNames \ {f} : ex'.task[g] = ex.task[g]]_vars
  /\ [](ex.phase = "returned" =>
          \A f \in FieldNames :
            /\ f \in DOMAIN ex.results
            /\ ex.results[f] = ex.task[f].value
            /\ Failing(ex.task[f]) => ex.results[f] = UNKNOWN)

C12_Witness ==
  /\ ex.phase = "returned"
  /\ ex.task["device_name"].probes = <<TRUE, TRUE>>
  /\ ex.results["device_name"] = UNKNOWN
  /\ ex.task["manufacturer"].gen = "returned"
  /\ ex.results["manufacturer"] = <<"X">>

\* C13: a field whose selected chunks (the first five unique ones) hold
\* nothing but whitespace is resolved to "Unknown" with no generation call.
C13_EmptyTextUnknown ==
  \A f \in FieldNames :
    ( /\ Probed(f)
      /\ \A i \in 1..Len(ex.task[f].unique) :
           i <= TopChunks => AllBlank(ex.task[f].unique[i].page_content) )
      => ( /\ ex.task[f].pc = "done"
           /\ ex.task[f].value = UNKNOWN
           /\ ex.task[f].gen = "none" )

C13_Witness ==
  \E f \in FieldNames :
    /\ Probed(f)
    /\ Len(ex.task[f].unique) = 1
    /\ ex.task[f].unique[1].page_content = BlankText
    /\ ex.task[f].value = UNKNOWN
    /\ ex.task[f].gen = "none"

\* C14: the unique chunks of a field hold every page content the probes
\* returned exactly once, ordered by the first occurrence of each content
\* in the probe results.
C14_FirstSeenOrder ==
  \A f \in FieldNames :
    Probed(f) =>
      LET U == ex.task[f].unique
          A == ex.task[f].all_chunks
          First(x) == CHOOSE i \in 1..Len(A) :
                        /\ A[i].page_content = x
                        /\ \A j \in 1..(i - 1) : A[j].page_content # x
      IN /\ {U[i].page_content : i \in 1..Len(U)}
              = {A[i].page_content : i \in 1..Len(A)}
         /\ \A i, j \in 1..Len(U) :
              i < j => /\ U[i].page_content # U[j].page_content
                       /\ First(U[i].page_content) < First(U[j].page_content)

C14_Witness ==
  \E f \in FieldNames :
    /\ Probed(f)
    /\ Len(ex.task[f].all_chunks) = 6
    /\ Len(ex.task[f].unique) = 4
    /\ ex.task[f].all_chunks[4].page_content = ex.task[f].unique[3].page_content

\* C15: the text given to the generation call is the page contents of the
\* first min(5, u) unique chunks, in order, joined by "\n\n".
C15_TopFiveJoined ==
  \A f \in FieldNames :
    (Probed(f) /\ (ex.task[f].pc = "generate" \/ ex.task[f].gen # "none")) =>
      LET U == ex.task[f].unique
          m == IF Len(U) < 5 THEN Len(U) ELSE 5
      IN ex.task[f].text
           = Join(<<"\n", "\n">>, [i \in 1..m |-> U[i].page_content])

C15_Witness ==
  \E f \in FieldNames :
    /\ Probed(f)
    /\ ex.task[f].gen = "returned"
    /\ Len(ex.task[f].unique) > 5

\* C16: the value _clean_extracted_value returns is not empty, not "None",
\* not "N/A", starts with none of the label prefixes, and is returned
\* unchanged when cleaned again.
C16_CleanedValue ==
  (pv.fn = "clean" /\ Len(pv.out) >= 1) =>
    /\ pv.out[1] \notin {<<>>, NONE_TEXT, NA_TEXT}
    /\ \A i \in 1..Len(prefixes_to_remove) :
         ~StartsWith(pv.out[1], prefixes_to_remove[i])
    /\ Len(pv.out) = 2 => pv.out[2] = pv.out[1]

\* a collection that exists and has points
Populated(c, name) == name \in DOMAIN c /\ Sum(c[name]) > 0

\* the step just taken is a load that inserted at least one chunk for key k
InsertedFor(r, k) ==
  /\ r.op \in {"load", "svc_load"}
  /\ r.status \in {"loaded", "true"}
  /\ r.rd /\ r.n > 0
  /\ r.key = k

\* C17: no key's collection is populated at the start; it becomes populated
\* only by a load that inserts at least one chunk for the key, is populated
\* after every such load, and stops being populated only when a delete or
\* a cleanup removes it.
C17_PopulatedByInsertOnly ==
  /\ \A k \in AllKeys : ~Populated(colls, NameTable[k])
  /\ [][\A k \in AllKeys :
          LET name == NameTable[k] IN
          /\ (~Populated(colls, name) /\ Populated(colls', name))
               => InsertedFor(ret', k)
          /\ InsertedFor(ret', k) => Populated(colls', name)
          /\ (Populated(colls, name) /\ ~Populated(colls', name))
               => (ret'.op \in {"delete", "cleanup"}
                     /\ name \notin DOMAIN colls')]_vars

C17_Witness ==
  /\ ret.op = "delete" /\ ret.status = "true"
  /\ Populated(colls, NameTable[K1])
  /\ NameTable[PK1] \notin DOMAIN colls

\* C18: delete_predicate_collection(k) on an absent collection returns False
\* and changes nothing; on a present one it returns True, the collection is
\* gone, and every other collection is as it was.
C18_DeleteFrame ==
  [][ret'.op = "delete" =>
       LET name == NameTable[ret'.key] IN
       IF name \in DOMAIN colls
         THEN /\ ret'.status = "true"
              /\ DOMAIN colls' = DOMAIN colls \ {name}
              /\ \A other \in DOMAIN colls' : colls'[other] = colls[other]
         ELSE /\ ret'.status = "false"
              /\ colls' = colls]_vars

C18_Witness ==
  /\ ret.op = "delete" /\ ret.status = "true" /\ ret.key = PK1
  /\ NameTable[PK1] \notin DOMAIN colls
  /\ Populated(colls, NameTable[K1])
  /\ LEGACY \in DOMAIN colls

\* C19: get_predicate_vector_store(k) creates a collection only when k's
\* collection is absent, and then an empty one; when the collection exists
\* the call changes no collection and no point count; either way the
\* collection exists afterwards.
C19_GetOrCreateIdempotent ==
  [][ret'.op = "get_store" =>
       LET name == NameTable[ret'.key] IN
       /\ name \in DOMAIN colls'
       /\ ret'.status = "created" => name \notin DOMAIN colls
       /\ IF name \in DOMAIN colls
            THEN colls' = colls
            ELSE /\ DOMAIN colls' = DOMAIN colls \cup {name}
                 /\ colls'[name] = <<>>
                 /\ \A other \in DOMAIN colls : colls'[other] = colls[other]]_vars

C19_Witness ==
  /\ ret.op = "get_store" /\ ret.status = "store"
  /\ Populated(colls, ret.name)

\* C20: get_predicate_collection_name gives the same name for the same
\* external ID on every call, and different names for different IDs.
C20_KeysInjective ==
  (pv.fn = "name" /\ Len(pv.out) >= 2) =>
    /\ pv.args[1] # pv.args[2] => pv.out[1] # pv.out[2]
    /\ Len(pv.out) = 3 => pv.out[3] = pv.out[1]


\* the positions of the registry response held in a list of devices
Positions(devices) == {devices[i].pos : i \in 1..Len(devices)}

Min(a, b) == IF a <= b THEN a ELSE b

\* the request has run its search and has not been rejected
InLoop == rq.op = "discover" /\ rq.pc \in {"loop", "download", "returned"}

\* C21: the name of an external ID is "predicate_" followed by the ID with
\* each "/" and "\" replaced by "_" and each letter lower-cased; it holds
\* no "/", no "\" and no upper-case letter.
C21_SanitizedName ==
  (pv.fn = "name" /\ Len(pv.out) >= 1) =>
    LET id == pv.args[1]
        name == pv.out[1]
    IN /\ Len(name) = Len(PREFIX) + Len(id)
       /\ SubSeq(name, 1, Len(PREFIX)) = PREFIX
       /\ \A i \in 1..Len(id) :
            name[Len(PREFIX) + i] =
              IF id[i] \in {"/", "\\"} THEN "_" ELSE LowerChar(id[i])
       /\ \A i \in 1..Len(name) :
            /\ name[i] \notin {"/", "\\"}
            /\ \A j \in 1..26 : name[i] # UpperLetters[j]

C21_Witness ==
  /\ pv.fn = "name" /\ Len(pv.out) >= 1
  /\ pv.args[1] = <<"K", "/">>
  /\ pv.args[2] = <<"\\", "K">>
  /\ pv.out[1] = PREFIX \o <<"k", "_">>
  /\ pv.out[2] = PREFIX \o <<"_", "k">>

\* C22: a discovery request never attempts more downloads than
\* max_downloads, and when it returns it has attempted
\* min(max_downloads, number of devices with a document) downloads.
C22_AttemptsBounded ==
  InLoop =>
    /\ rq.downloads_attempted <= rq.max_downloads
    /\ rq.pc = "returned" =>
         rq.summary.downloads_attempted
           = Min(rq.max_downloads, Len(rq.devices_with_510k))

\* C23: in every state of the loop len(downloads) <= max_downloads and
\* len(downloads) <= downloads_attempted <= len(devices_with_510k)
\* <= len(all_devices); the returned summary reports these numbers.
C23_CounterChain ==
  InLoop =>
    /\ Len(rq.downloads) <= rq.max_downloads
    /\ Len(rq.downloads) <= rq.downloads_attempted
    /\ rq.downloads_attempted <= Len(rq.devices_with_510k)
    /\ Len(rq.devices_with_510k) <= Len(rq.all_devices)
    /\ rq.pc = "returned" =>
         /\ rq.summary.downloads_successful = Len(rq.downloads)
         /\ rq.summary.downloads_successful <= rq.summary.max_downloads_requested
         /\ rq.summary.downloads_successful <= rq.summary.downloads_attempted
         /\ rq.summary.downloads_attempted <= rq.summary.devices_with_documents
         /\ rq.summary.devices_with_documents <= rq.summary.total_found

C23_Witness ==
  /\ InLoop /\ rq.pc = "returned"
  /\ rq.max_downloads = 1
  /\ rq.summary.downloads_successful = 1
  /\ rq.summary.downloads_attempted = 2
  /\ rq.summary.devices_with_documents = 2
  /\ rq.summary.total_found = 3

\* C24: in the result returned, all_devices holds every valid record of
\* the response exactly once, each device is in exactly one of
\* devices_with_510k (flag set) and devices_without_510k (flag unset), and
\* the summary counts them.
C24_DevicePartition ==
  (InLoop /\ rq.pc = "returned") =>
    LET with == rq.devices_with_510k
        without == rq.devices_without_510k
    IN /\ Positions(rq.all_devices)
            = {i \in 1..Len(rq.results) :
                 extract_device_info(rq.results[i], i).found}
       /\ Len(rq.all_devices) = Cardinality(Positions(rq.all_devices))
       /\ Len(with) = Cardinality(Positions(with))
       /\ Len(without) = Cardinality(Positions(without))
       /\ Positions(with) \cup Positions(without) = Positions(rq.all_devices)
       /\ Positions(with) \cap Positions(without) = {}
       /\ \A i \in 1..Len(with) : with[i].has_510k_document
       /\ \A i \in 1..Len(without) : ~without[i].has_510k_document
       /\ rq.summary.total_found = Len(rq.all_devices)
       /\ rq.summary.total_found = Len(with) + Len(without)
       /\ rq.summary.devices_with_documents = Len(with)

C24_Witness ==
  /\ InLoop /\ rq.pc = "returned"
  /\ Len(rq.results) = 3
  /\ Len(rq.all_devices) = 2
  /\ Len(rq.devices_with_510k) = 1
  /\ Len(rq.devices_without_510k) = 1
  /\ rq.failed # {}

\* C25: a device whose download failed is in all_devices and in
\* devices_with_510k and not in downloads; the loop goes on with the next
\* record, and the result returned covers every record of the response.
C25_DownloadFailureNonFatal ==
  /\ [](InLoop =>
          /\ \A pos \in rq.failed :
               /\ pos \in Positions(rq.all_devices)
               /\ pos \in Positions(rq.devices_with_510k)
               /\ pos \notin Positions(rq.downloads)
          /\ rq.pc = "returned" =>
               /\ rq.status = "ok"
               /\ Positions(rq.all_devices)
                    = {i \in 1..Len(rq.results) :
                         extract_device_info(rq.results[i], i).found})
  /\ [][(InLoop /\ rq.pc = "download" /\ rq'.failed # rq.failed)
          => (rq'.pc = "loop" /\ rq'.i = rq.i + 1)]_vars

C25_Witness ==
  /\ InLoop /\ rq.pc = "returned"
  /\ 1 \in rq.failed
  /\ 2 \in Positions(rq.downloads)
  /\ 3 \in Positions(rq.devices_without_510k)

\* C26: a request with neither search_term nor product_code is answered
\* with the error (HTTP 400); no registry request is made for it and no
\* download is attempted.
C26_InvalidQueryRejected ==
  (rq.op = "discover"
     /\ rq.params.search_term = None /\ rq.params.product_code = None) =>
    /\ rq.pc = "rejected"
    /\ rq.status = "400"
    /\ ~rq.searched
    /\ rq.downloads_attempted = 0

C26_Witness ==
  /\ rq.op = "discover" /\ rq.pc = "rejected" /\ rq.status = "400"
  /\ rq.params.search_term = None /\ rq.params.product_code = None
  /\ rq.max_downloads = MaxDownloads

\* C27: when the registry request fails, discover_predicates returns at
\* once the empty result: no device, no download, every count 0 and
\* max_downloads echoed.
C27_RegistryFailureEmpty ==
  [][(rq.op = "discover" /\ rq.pc = "search"
        /\ rq'.pc # "search" /\ rq'.results = <<>>)
       => /\ rq'.pc = "returned" /\ rq'.status = "ok"
          /\ rq'.all_devices = <<>> /\ rq'.downloads = <<>>
          /\ rq'.devices_with_510k = <<>> /\ rq'.devices_without_510k = <<>>
          /\ rq'.downloads_attempted = 0
          /\ rq'.summary = [total_found |-> 0, devices_with_documents |-> 0,
                            downloads_attempted |-> 0,
                            downloads_successful |-> 0,
                            max_downloads_requested |-> rq.max_downloads]]_vars

C27_Witness ==
  /\ rq.op = "discover" /\ rq.pc = "returned" /\ rq.searched
  /\ rq.results = <<>>
  /\ rq.max_downloads = MaxDownloads
  /\ rq.summary.max_downloads_requested = MaxDownloads


C29_BulkComplete ==
  (rq.op = "bulk" /\ rq.pc = "returned") =>
    /\ Len(rq.extractions) = Len(rq.k_numbers)
    /\ \A i \in 1..Len(rq.extractions) :
         /\ rq.extractions[i].k_number = rq.k_numbers[i]
         /\ rq.extractions[i].extraction_status \in Statuses
    /\ rq.total_processed = Len(rq.k_numbers)
    /\ rq.status_counts["success"] + rq.status_counts["no_pdf"]
         + rq.status_counts["extraction_failed"]
         + rq.status_counts["no_ifu_found"] = rq.total_processed
    /\ \A s \in Statuses :
         rq.status_counts[s]
           = Cardinality({i \in 1..Len(rq.extractions) :
                            rq.extractions[i].extraction_status = s})

C29_Witness ==
  /\ rq.op = "bulk" /\ rq.pc = "returned"
  /\ Len(rq.k_numbers) = 2
  /\ rq.extractions[1].extraction_status = "extraction_failed"
  /\ rq.extractions[2].extraction_status = "no_pdf"
  /\ rq.total_processed = 2

\* C30: an item whose write to storage failed has the status and the IFU
\* text it has with a successful write; what differs is the note in
\* error_message (and the URL, which stays that of the source).
C30_WriteFailureNonFatal ==
  (rq.op = "bulk" /\ rq.pc = "loop" /\ rq.i > 1
     /\ rq.last.download /\ rq.last.write # "ok") =>
    LET k == rq.k_numbers[rq.i - 1]
        got == rq.extractions[rq.i - 1]
        written == extract_single_ifu(k, rq.store,
                                      [rq.last EXCEPT !.write = "ok"])
    IN /\ got.extraction_status = written.extraction_status
       /\ got.ifu_text = written.ifu_text
       /\ got.device_name = written.device_name
       /\ (rq.last.info # "null_name" /\ rq.last.ifu = <<"I", "F", "U">>
             /\ Len(k) >= 3)
            => /\ got.extraction_status = "success"
               /\ got.error_message
                    = "PDF download succeeded but storage save failed"

C30_Witness ==
  /\ rq.op = "bulk" /\ rq.pc = "loop" /\ rq.i > 1
  /\ rq.store = "r2" /\ rq.last.write = "raised" /\ rq.last.download
  /\ rq.extractions[rq.i - 1].extraction_status = "success"
  /\ rq.extractions[rq.i - 1].error_message
       = "PDF download succeeded but storage save failed"


\* C31: nothing is sent twice: within one discovery the registry search is
\* issued at most once and the download is attempted at most once per
\* record of the response, also after a failure; within one bulk extraction
\* the document is requested at most once per entry of the list
C31_NoRetry ==
  rq.op \in {"discover", "bulk"} =>
    /\ \A i \in 1..Len(rq.sent) : \A j \in 1..Len(rq.sent) :
         rq.sent[i] = rq.sent[j] => i = j
    /\ rq.op = "discover" =>
         /\ rq.searched <=> rq.sent # <<>> /\ rq.sent[1].what = "search"
         /\ \A i \in 2..Len(rq.sent) :
              /\ rq.sent[i].what = "download"
              /\ rq.sent[i].pos \in 1..Len(rq.results)
         /\ rq.failed \subseteq {rq.sent[i].pos : i \in 1..Len(rq.sent)}
    /\ rq.op = "bulk" =>
         \A i \in 1..Len(rq.sent) : rq.sent[i].pos \in 1..(rq.i - 1)

\* a discovery has returned after a failed download that was followed by
\* another record
C31_Witness ==
  /\ rq.op = "discover" /\ rq.pc = "returned"
  /\ rq.failed # {}
  /\ \E pos \in rq.failed : pos < Len(rq.results)
  /\ Len(rq.sent) >= 3
\* C32: when a request in extract_all_fields is cancelled, every field task
\* that is not done is aborted where it is suspended, with no value and no
\* result dictionary; after the cancellation no probe and no generation
\* completes or starts, and no value of a task changes
C32_CancelAborts ==
  [][/\ (ex.phase = "running" /\ ex'.phase = "cancelled") =>
          /\ ex'.results = <<>>
          /\ \A f \in FieldNames :
               IF ex.task[f].pc = "done"
                 THEN ex'.task[f] = ex.task[f]
                 ELSE /\ ex'.task[f].pc = "cancelled"
                      /\ ex'.task[f].value = <<>>
                      /\ ex'.task[f].q = ex.task[f].q
                      /\ ex'.task[f].gen = ex.task[f].gen
     /\ ex.phase = "cancelled" => ex' = ex]_vars

\* the request was cancelled with one field suspended in its second probe
\* and another suspended in its generation call
C32_Witness ==
  /\ ex.phase = "cancelled"
  /\ \E f \in FieldNames :
       /\ ex.task[f].pc = "cancelled"
       /\ Len(ex.task[f].probes) = 1
       /\ ex.task[f].text = <<>>
  /\ \E f \in FieldNames :
       /\ ex.task[f].pc = "cancelled"
       /\ Strip(ex.task[f].text) # <<>>
\* request p has an operation on key k that is suspended at the insertion
\* or in progress on a worker thread
Pending(p, k) ==
  \/ co[p].pc = "ld_insert" /\ co[p].key = k
  \/ th[p].pc = "create" /\ th[p].key = k /\ co[p].pc # "ld_create"

QueryIndex(f, query) ==
  CHOOSE i \in 1..Len(EXTRACTION_CONFIG[f].queries) :
    EXTRACTION_CONFIG[f].queries[i] = query

\* C34: within a field the probes run one after another in configuration
\* order; a probe that raised contributes no chunk and does not stop the
\* field: every configured probe has run when the probing is over, and the
\* field is generated from the chunks of the probes that succeeded; it is
\* "Unknown" without a generation call only when these chunks give no text
C34_ProbeFailureSkipped ==
  \A f \in FieldNames :
    ex.phase # "idle" =>
      LET t == ex.task[f]
          queries == EXTRACTION_CONFIG[f].queries
      IN /\ Len(t.probes) <= Len(queries)
         /\ t.pc = "search" => Len(t.probes) = t.q - 1
         /\ t.pc \in {"generate", "done"} => Len(t.probes) = Len(queries)
         /\ \A i \in 1..Len(t.all_chunks) :
              /\ t.all_chunks[i].query \in Range(queries)
              /\ QueryIndex(f, t.all_chunks[i].query) <= Len(t.probes)
              /\ ~t.probes[QueryIndex(f, t.all_chunks[i].query)]
              /\ \A j \in (i + 1)..Len(t.all_chunks) :
                   QueryIndex(f, t.all_chunks[i].query)
                     <= QueryIndex(f, t.all_chunks[j].query)
         /\ t.pc \in {"generate", "done"} =>
              /\ t.unique = unique_chunks(t.all_chunks)
              /\ t.text = combined_text(t.unique)
              /\ (t.pc = "done" /\ t.gen = "none") <=> Strip(t.text) = <<>>
              /\ t.gen = "returned" => t.value # <<>>
         /\ (t.pc = "done" /\ t.value = UNKNOWN) =>
              \/ Strip(t.text) = <<>>
              \/ t.gen \in {"raised", "returned"}

\* the first probe of a field raised, the second one found text, and the
\* field was generated from the chunks of the second probe
C34_Witness ==
  \E f \in FieldNames :
    /\ ex.phase # "idle"
    /\ ex.task[f].pc = "done"
    /\ ex.task[f].probes = <<TRUE, FALSE>>
    /\ Len(ex.task[f].all_chunks) = 3
    /\ ex.task[f].gen = "returned"
    /\ ex.task[f].value = <<"X">>
\* the collections created per device key: every "predicate_" collection
\* but the legacy one
DeviceIn(c) == PredicateIn(c) \ {LEGACY}

\* C35: a cleanup request with keep_count < 5 is answered with an error and
\* leaves the cache as it was, and every cleanup request leaves at least
\* min(5, total) of the total per-device collections in place
C35_RouteKeepsFive ==
  [][ret'.op = "cleanup_route" =>
       /\ ret'.n < MinKeepCount => (ret'.status = "400" /\ colls' = colls)
       /\ Cardinality(DeviceIn(colls')) >=
            Min(MinKeepCount, Cardinality(DeviceIn(colls)))]_vars
\* the K-number derived from the name of the legacy collection
LegacyKey == KNumberTable[LEGACY]

\* C36: the legacy "predicate_device" collection exists in every state: a
\* cleanup neither deletes it nor returns it as deleted, and the listing
\* of device keys does not contain it
C36_LegacyUntouched ==
  /\ LEGACY \in DOMAIN colls
  /\ ret.op = "cleanup_route" => LegacyKey \notin Range(ret.deleted)
  /\ ret.op = "list" => LegacyKey \notin Range(ret.listed)
\* C37: obtaining the retriever of the predicate device is read-only with
\* respect to the cache: a retrieval neither creates nor deletes a
\* collection
C37_RetrievalReadOnly ==
  [][ret'.op = "retrieve" => DOMAIN colls' = DOMAIN colls]_vars

\* C38: while the analysis of a request for key k runs, the collection of
\* k, once populated, stays present and populated whatever else is executed
C38_AnalysisPinned ==
  [][\A p \in Procs :
       ( /\ co[p].pc = "analysis" /\ co'[p].pc = "analysis"
         /\ Populated(colls, NameTable[co[p].key]) )
         => Populated(colls', NameTable[co[p].key])]_vars

\* C39: a request enters the analysis only with the collection of its key
\* populated and the selector set to its key; a request whose load failed
\* leaves the selector as it was and runs no analysis
C39_AnalysisOnPopulated ==
  [][\A p \in Procs :
       /\ (co[p].pc # "analysis" /\ co'[p].pc = "analysis") =>
            /\ current' = co'[p].key
            /\ Populated(colls', NameTable[co'[p].key])
       /\ ( /\ ret'.op = "equiv" /\ ret'.who = p
            /\ ret'.status = "load_failed" /\ ret' # ret ) =>
            /\ current' = current
            /\ co'[p].pc = "idle"]_vars
====
